---- MODULE Spec2Model ----
(***************************************************************************)
(* Model of the two pipelines of defou-workflow-agent.                     *)
(*                                                                         *)
(* Pipeline A (the article list watcher): the chokidar 'add' handler,      *)
(* processInputFile with its p-limit(2) batch of per-article tasks, the    *)
(* archival rename and the verification hook.                              *)
(*                                                                         *)
(* Pipeline B (tophub-trends): run() = fetchHotList, save raw data,        *)
(* analyzeHotList, save report, process.exit(1) on any throw.              *)
(*                                                                         *)
(* Every await of the source is a suspension point, hence a boundary       *)
(* between two actions; code between two awaits runs atomically (one       *)
(* JavaScript thread).  Outcomes of external calls (HTTP fetch, model      *)
(* call, fs calls, the hook's exit code) are chosen nondeterministically.  *)
(***************************************************************************)
EXTENDS Integers, Sequences, FiniteSets, TLC

\* ------------------------------------------------------------------ bounds
MaxFiles == 2
MaxArticles == 3
MaxLinksMany == 1
MaxClock == 1
MaxNodes == 3

Files == 1..MaxFiles

\* ------------------------------------------------------- strings as char sequences
WS == " "
AlnumChars == {"a", "b"}

StartsWith(s, p) == Len(s) >= Len(p) /\ SubSeq(s, 1, Len(p)) = p

RECURSIVE TrimLeft(_)
TrimLeft(s) == IF s # <<>> /\ Head(s) = WS THEN TrimLeft(Tail(s)) ELSE s

RECURSIVE TrimRight(_)
TrimRight(s) ==
    IF s # <<>> /\ s[Len(s)] = WS THEN TrimRight(SubSeq(s, 1, Len(s) - 1)) ELSE s

Trim(s) == TrimRight(TrimLeft(s))

Slice(s, n) == SubSeq(s, 1, IF Len(s) < n THEN Len(s) ELSE n)

HttpPrefix == <<"h", "t", "t", "p">>
FailedPrefix == <<"[", "F", "a", "i", "l", "e", "d">>

HttpLink == <<"h", "t", "t", "p", ":", "x">>
FtpLink == <<"f", "t", "p", ":", "x">>

\* The regex matches [title](link) a file's text is made of: two titles that
\* differ only in punctuation, a blank title, a link that is not http.
MatchKinds ==
    { [title |-> <<"a", "!">>, link |-> HttpLink],
      [title |-> <<"a", "?">>, link |-> HttpLink],
      [title |-> <<WS>>, link |-> HttpLink],
      [title |-> <<"b">>, link |-> FtpLink] }

Exts == {".md", ".txt", ".json"}

RECURSIVE SeqsUpTo(_, _)
SeqsUpTo(S, n) ==
    IF n = 0 THEN { <<>> }
    ELSE LET shorter == SeqsUpTo(S, n - 1)
         IN  shorter \cup { Append(s, x) : s \in { t \in shorter : Len(t) = n - 1 }, x \in S }

\* ------------------------------------------------------------------ state
VARIABLES
    inputFile,     \* per file: extension and the regex matches of its text
    pc,            \* per file: position of the 'add' handler / processInputFile
    inInput,       \* per file: the file exists in INPUT_DIR
    archived,      \* per file: number of renames into ARCHIVE_DIR
    renameTries,   \* per file: number of calls of fs.renameSync
    articles,      \* per file: result of parseMarkdownLinks
    task,          \* per file: status of every per-article task
    queue,         \* per file: p-limit's queue of tasks not yet started
    activeCount,   \* per file: p-limit's activeCount
    successCount,  \* per file: successCount of processInputFile
    fetchFailed,   \* per file: tasks whose fetch returned the sentinel
    generated,     \* per file: tasks for which generateContent was called
    hookRuns,      \* per file: number of runVerifySkill spawns
    outputs,       \* OUTPUT_DIR: set of [name, by]
    clock,         \* wall clock, in seconds
    bpc,           \* Pipeline B: position of run()
    nodes,         \* Pipeline B: '.child-item' nodes of the scraped page
    items,         \* Pipeline B: result of fetchHotList
    trendsDir      \* Pipeline B: files of TRENDS_DIR

varsA == <<inputFile, pc, inInput, archived, renameTries, articles, task, queue, activeCount,
           successCount, fetchFailed, generated, hookRuns, outputs, clock>>
varsB == <<bpc, nodes, items, trendsDir>>
vars == <<inputFile, pc, inInput, archived, renameTries, articles, task, queue, activeCount,
          successCount, fetchFailed, generated, hookRuns, outputs, clock,
          bpc, nodes, items, trendsDir>>

\* ------------------------------------------------------------ Pipeline A helpers
\* parseMarkdownLinks: one item per match whose trimmed title and link are
\* non-empty and whose link starts with 'http', in order of appearance.
KeepMatch(m) ==
    /\ Trim(m.title) # <<>>
    /\ Trim(m.link) # <<>>
    /\ StartsWith(Trim(m.link), HttpPrefix)

RECURSIVE parseMarkdownLinks(_)
parseMarkdownLinks(content) ==
    IF content = <<>> THEN <<>>
    ELSE LET m == Head(content)
             rest == parseMarkdownLinks(Tail(content))
         IN  IF KeepMatch(m)
             THEN <<[title |-> Trim(m.title), link |-> Trim(m.link)]>> \o rest
             ELSE rest

\* fetchArticleContent never throws: it returns the article text or the sentinel.
ArticleText == <<"t", "x", "t">>
Sentinel(url) == FailedPrefix \o <<WS>> \o url \o <<"]">>
FetchResults(url) == { ArticleText, Sentinel(url) }

\* content.startsWith('[Failed')
IsFetchFailure(content) == StartsWith(content, FailedPrefix)

\* article.title.replace(/[^a-z0-9一-龥]/gi, '_').slice(0, 20)
SafeTitleLen == 20
safeTitle(title) ==
    Slice([i \in 1..Len(title) |-> IF title[i] \in AlnumChars THEN title[i] ELSE "_"],
          SafeTitleLen)

\* `list_${dateStr}_${safeTitle}.md`, dateStr having a resolution of one second
outputFilename(now, title) == <<"list", now, safeTitle(title)>>

\* fs.writeFileSync(outputPath, ...): creates the file or replaces its content
writeFileSync(dir, name, owner) ==
    { o \in dir : o.name # name } \cup { [name |-> name, by |-> owner] }

\* pLimit(2)
Concurrency == 2
\* an off-by-one in the limiter's test
CanRun_OffByOne(active) == active <= Concurrency
CanRun(active) == active < Concurrency

\* the per-article catch rethrows
TaskCatch_Rethrow == "rejected"

\* the catch of the per-article task: the error is logged, the task's promise resolves
TaskCatch == "failed"

\* the catch of processInputFile rethrows
OuterCatch_Rethrow == "crashed"

\* the catch of processInputFile: the error is logged, processInputFile resolves
OuterCatch == "idle"

\* runVerifySkill's 'close' listener resolves for every exit code
HookSettle(code) == "resolved"

\* the hook is triggered for every batch
ShouldVerify_Always(count) == count >= 0

\* if (successCount > 0)
ShouldVerify(count) == count > 0

\* the early return is missing
NoArticles_Never(arts) == FALSE

\* if (articles.length === 0) return;
NoArticles(arts) == Len(arts) = 0

\* Promise.race instead of Promise.all
PromiseAllDone_Race(statuses) ==
    \E i \in 1..Len(statuses) : statuses[i] \in {"skipped", "saved", "failed", "rejected"}

\* await Promise.all(tasks): resumes when every task's promise has resolved, or
\* as soon as one has rejected
PromiseAllDone(statuses) ==
    \/ \E i \in 1..Len(statuses) : statuses[i] = "rejected"
    \/ \A i \in 1..Len(statuses) : statuses[i] \in {"skipped", "saved", "failed"}

\* ['.md', '.txt'].includes(path.extname(filename).toLowerCase())
IsListFile(ext) == ext \in {".md", ".txt"}

Settled == {"skipped", "saved", "failed"}
TaskIdx(f) == 1..Len(task[f])
AllSettled(f) == \A i \in TaskIdx(f) : task[f][i] \in Settled
AnyRejected(f) == \E i \in TaskIdx(f) : task[f][i] = "rejected"
InFlight(f) == { i \in TaskIdx(f) : task[f][i] \in {"fetching", "generating"} }

\* ------------------------------------------------------------ Pipeline A actions
\* watcher.on('add', ...): the extension filter, then processInputFile up to
\* its first await (the 1 s debounce timer).
OnAdd(f) ==
    /\ pc[f] = "dropped"
    /\ pc' = [pc EXCEPT ![f] = IF IsListFile(inputFile[f].ext) THEN "debounce" ELSE "ignored"]
    /\ UNCHANGED <<inputFile, inInput, archived, renameTries, articles, task, queue, activeCount,
                   successCount, fetchFailed, generated, hookRuns, outputs, clock>>
    /\ UNCHANGED varsB

\* Somebody else removes the file from INPUT_DIR while it is being processed.
ExternalRemove(f) ==
    /\ pc[f] \in {"debounce", "running"}
    /\ inInput[f]
    /\ inInput' = [inInput EXCEPT ![f] = FALSE]
    /\ UNCHANGED <<inputFile, pc, archived, renameTries, articles, task, queue, activeCount,
                   successCount, fetchFailed, generated, hookRuns, outputs, clock>>
    /\ UNCHANGED varsB

\* After the debounce: existsSync, readFileSync, parseMarkdownLinks, the
\* creation of the tasks (all queued by p-limit), up to await Promise.all.
AfterDebounce(f) ==
    /\ pc[f] = "debounce"
    /\ IF ~inInput[f]
       THEN /\ pc' = [pc EXCEPT ![f] = "idle"]
            /\ UNCHANGED <<articles, task, queue>>
       ELSE \E readOk \in BOOLEAN :
              IF ~readOk
              THEN /\ pc' = [pc EXCEPT ![f] = OuterCatch]
                   /\ UNCHANGED <<articles, task, queue>>
              ELSE LET arts == parseMarkdownLinks(inputFile[f].content)
                   IN  IF NoArticles(arts)
                       THEN /\ pc' = [pc EXCEPT ![f] = "idle"]
                            /\ UNCHANGED <<articles, task, queue>>
                       ELSE /\ pc' = [pc EXCEPT ![f] = "running"]
                            /\ articles' = [articles EXCEPT ![f] = arts]
                            /\ task' = [task EXCEPT ![f] = [i \in 1..Len(arts) |-> "queued"]]
                            /\ queue' = [queue EXCEPT ![f] = [i \in 1..Len(arts) |-> i]]
    /\ UNCHANGED <<inputFile, inInput, archived, renameTries, activeCount, successCount,
                   fetchFailed, generated, hookRuns, outputs, clock>>
    /\ UNCHANGED varsB

\* p-limit starts the head of its queue while activeCount < concurrency; the
\* task runs up to `await fetchArticleContent(...)`.
StartTask(f) ==
    /\ queue[f] # <<>>
    /\ CanRun(activeCount[f])
    /\ LET i == Head(queue[f])
       IN  /\ task' = [task EXCEPT ![f][i] = "fetching"]
           /\ queue' = [queue EXCEPT ![f] = Tail(queue[f])]
           /\ activeCount' = [activeCount EXCEPT ![f] = activeCount[f] + 1]
    /\ UNCHANGED <<inputFile, pc, inInput, archived, renameTries, articles, successCount,
                   fetchFailed, generated, hookRuns, outputs, clock>>
    /\ UNCHANGED varsB

\* fetchArticleContent returns; a sentinel ends the task, otherwise the task
\* runs up to `await generateContent(...)`.
FetchReturn(f, i) ==
    /\ task[f][i] = "fetching"
    /\ \E content \in FetchResults(articles[f][i].link) :
         /\ fetchFailed' = [fetchFailed EXCEPT ![f] =
                              IF content = Sentinel(articles[f][i].link)
                              THEN fetchFailed[f] \cup {i} ELSE fetchFailed[f]]
         /\ IF IsFetchFailure(content)
            THEN /\ task' = [task EXCEPT ![f][i] = "skipped"]
                 /\ activeCount' = [activeCount EXCEPT ![f] = activeCount[f] - 1]
                 /\ UNCHANGED generated
            ELSE /\ task' = [task EXCEPT ![f][i] = "generating"]
                 /\ generated' = [generated EXCEPT ![f] = generated[f] \cup {i}]
                 /\ UNCHANGED activeCount
    /\ UNCHANGED <<inputFile, pc, inInput, archived, renameTries, articles, queue, successCount,
                   hookRuns, outputs, clock>>
    /\ UNCHANGED varsB

\* generateContent returns or throws; on return the output is written
\* (writeFileSync may throw) and successCount is incremented.
GenerateReturn(f, i) ==
    /\ task[f][i] = "generating"
    /\ \E genOk \in BOOLEAN, writeOk \in BOOLEAN :
         IF genOk /\ writeOk
         THEN /\ outputs' = writeFileSync(outputs,
                                         outputFilename(clock, articles[f][i].title),
                                         <<f, i>>)
              /\ successCount' = [successCount EXCEPT ![f] = successCount[f] + 1]
              /\ task' = [task EXCEPT ![f][i] = "saved"]
         ELSE /\ task' = [task EXCEPT ![f][i] = TaskCatch]
              /\ UNCHANGED <<outputs, successCount>>
    /\ activeCount' = [activeCount EXCEPT ![f] = activeCount[f] - 1]
    /\ UNCHANGED <<inputFile, pc, inInput, archived, renameTries, articles, queue,
                   fetchFailed, generated, hookRuns, clock>>
    /\ UNCHANGED varsB

\* fs.renameSync(filePath, archivePath) throws when the file is gone, and may
\* throw for other reasons.
RenameOutcomes(exists) == IF exists THEN {TRUE, FALSE} ELSE {FALSE}

\* await Promise.all(tasks) returns (or rejects at the first rejected task);
\* then the archival rename and, if successCount > 0, the spawn of the hook.
AfterAll(f) ==
    /\ pc[f] = "running"
    /\ PromiseAllDone(task[f])
    /\ IF AnyRejected(f)
       THEN /\ pc' = [pc EXCEPT ![f] = OuterCatch]
            /\ UNCHANGED <<inInput, archived, renameTries, hookRuns>>
       ELSE \E renameOk \in RenameOutcomes(inInput[f]) :
              /\ renameTries' = [renameTries EXCEPT ![f] = renameTries[f] + 1]
              /\ IF ~renameOk
                 THEN /\ pc' = [pc EXCEPT ![f] = OuterCatch]
                      /\ UNCHANGED <<inInput, archived, hookRuns>>
                 ELSE /\ inInput' = [inInput EXCEPT ![f] = FALSE]
                      /\ archived' = [archived EXCEPT ![f] = archived[f] + 1]
                      /\ IF ShouldVerify(successCount[f])
                         THEN /\ hookRuns' = [hookRuns EXCEPT ![f] = hookRuns[f] + 1]
                              /\ pc' = [pc EXCEPT ![f] = "verify"]
                         ELSE /\ pc' = [pc EXCEPT ![f] = "idle"]
                              /\ UNCHANGED hookRuns
    /\ UNCHANGED <<inputFile, articles, task, queue, activeCount, successCount,
                   fetchFailed, generated, outputs, clock>>
    /\ UNCHANGED varsB

\* The hook's child process closes with an exit code; processInputFile ends
\* and the handler logs that it waits for the next file.
HookClose(f) ==
    /\ pc[f] = "verify"
    /\ \E code \in {0, 1} :
         pc' = [pc EXCEPT ![f] = IF HookSettle(code) = "resolved" THEN "idle" ELSE OuterCatch]
    /\ UNCHANGED <<inputFile, inInput, archived, renameTries, articles, task, queue, activeCount,
                   successCount, fetchFailed, generated, hookRuns, outputs, clock>>
    /\ UNCHANGED varsB

\* A second of wall-clock time passes.
Tick ==
    /\ clock < MaxClock
    /\ clock' = clock + 1
    /\ UNCHANGED <<inputFile, pc, inInput, archived, renameTries, articles, task, queue, activeCount,
                   successCount, fetchFailed, generated, hookRuns, outputs>>
    /\ UNCHANGED varsB

\* ------------------------------------------------------------------ Init
NoFile == [ext |-> ".md", content |-> <<>>]

InitB0 ==
    /\ bpc = "off"
    /\ nodes = <<>>
    /\ items = <<>>
    /\ trendsDir = {}

InitCommon ==
    /\ archived = [f \in Files |-> 0]
    /\ renameTries = [f \in Files |-> 0]
    /\ articles = [f \in Files |-> <<>>]
    /\ task = [f \in Files |-> <<>>]
    /\ queue = [f \in Files |-> <<>>]
    /\ activeCount = [f \in Files |-> 0]
    /\ successCount = [f \in Files |-> 0]
    /\ fetchFailed = [f \in Files |-> {}]
    /\ generated = [f \in Files |-> {}]
    /\ hookRuns = [f \in Files |-> 0]
    /\ outputs = {}
    /\ clock = 0

\* One file is dropped into INPUT_DIR.
Init ==
    /\ \E e \in Exts, c \in SeqsUpTo(MatchKinds, MaxArticles) :
         inputFile = [f \in Files |-> IF f = 1 THEN [ext |-> e, content |-> c] ELSE NoFile]
    /\ pc = [f \in Files |-> IF f = 1 THEN "dropped" ELSE "absent"]
    /\ inInput = [f \in Files |-> f = 1]
    /\ InitCommon
    /\ InitB0

NextA ==
    \/ \E f \in Files : OnAdd(f)
    \/ \E f \in Files : ExternalRemove(f)
    \/ \E f \in Files : AfterDebounce(f)
    \/ \E f \in Files : StartTask(f)
    \/ \E f \in Files : \E i \in TaskIdx(f) : FetchReturn(f, i)
    \/ \E f \in Files : \E i \in TaskIdx(f) : GenerateReturn(f, i)
    \/ \E f \in Files : AfterAll(f)
    \/ \E f \in Files : HookClose(f)
    \/ Tick

Spec == Init /\ [][NextA]_vars

\* Every file is dropped into INPUT_DIR (files present at start-up, or dropped
\* at any later time: the 'add' events fire in any order).
PlainKinds ==
    { [title |-> <<"a", "!">>, link |-> HttpLink],
      [title |-> <<WS>>, link |-> HttpLink] }

InitMany ==
    /\ inputFile \in [Files -> [ext : {".md", ".json"},
                                content : SeqsUpTo(PlainKinds, MaxLinksMany)]]
    /\ pc = [f \in Files |-> "dropped"]
    /\ inInput = [f \in Files |-> TRUE]
    /\ InitCommon
    /\ InitB0

SpecMany == InitMany /\ [][NextA]_vars

\* Each step of processInputFile waits for a timer, an HTTP call (10 s timeout),
\* a model call or a child process; the event loop runs a callback that is
\* ready, so a step that stays enabled is eventually taken.
FileStep(f) ==
    \/ OnAdd(f)
    \/ AfterDebounce(f)
    \/ StartTask(f)
    \/ \E i \in TaskIdx(f) : FetchReturn(f, i)
    \/ \E i \in TaskIdx(f) : GenerateReturn(f, i)
    \/ AfterAll(f)
    \/ HookClose(f)

\* One file is dropped; its links have one title (which tasks fail is chosen
\* step by step).
InitFair ==
    /\ \E e \in {".md", ".json"}, c \in SeqsUpTo(PlainKinds, MaxArticles) :
         inputFile = [f \in Files |-> IF f = 1 THEN [ext |-> e, content |-> c] ELSE NoFile]
    /\ pc = [f \in Files |-> IF f = 1 THEN "dropped" ELSE "absent"]
    /\ inInput = [f \in Files |-> f = 1]
    /\ InitCommon
    /\ InitB0

FairSpec == InitFair /\ [][NextA]_vars /\ \A f \in Files : WF_vars(FileStep(f))

\* ------------------------------------------------------------ Pipeline B
SEP == "*"
TophubOrigin == <<"o">>

\* a '.child-item' node: rank, title text, href, '.small-txt' text
NodeKinds ==
    { [rank |-> <<"1">>, title |-> <<"a">>, href |-> HttpLink, small |-> <<"z", SEP, "9">>],
      [rank |-> <<>>, title |-> <<WS>>, href |-> HttpLink, small |-> <<"z", SEP, "9">>],
      [rank |-> <<"2">>, title |-> <<"b">>, href |-> <<"/", "n">>, small |-> <<"z">>] }

\* smallTxt.split(SEP).map(trim): the piece number k, or undefined (<<>> after `|| ''`)
RECURSIVE Split(_, _)
Split(s, acc) ==
    IF s = <<>> THEN <<acc>>
    ELSE IF Head(s) = SEP THEN <<acc>> \o Split(Tail(s), <<>>)
    ELSE Split(Tail(s), Append(acc, Head(s)))

Part(s, k) == LET parts == Split(s, <<>>) IN IF k <= Len(parts) THEN Trim(parts[k]) ELSE <<>>

hotItem(n) ==
    [rank |-> Trim(n.rank),
     title |-> Trim(n.title),
     link |-> IF StartsWith(n.href, HttpPrefix) THEN n.href ELSE TophubOrigin \o n.href,
     source |-> Part(Trim(n.small), 1),
     hot |-> Part(Trim(n.small), 2)]

\* fetchHotList's loop over the nodes: an item is kept if its title is not empty
RECURSIVE scrape(_)
scrape(ns) ==
    IF ns = <<>> THEN <<>>
    ELSE IF Trim(Head(ns).title) # <<>>
         THEN <<hotItem(Head(ns))>> \o scrape(Tail(ns))
         ELSE scrape(Tail(ns))

rawFilename(now) == <<"tophub_hot", now>>
reportFilename(now) == <<"tophub_analysis", now>>

\* the catch of run() only logs
RunCatch_Swallow == "done"

\* the catch of run(): console.error, process.exit(1)
RunCatch == "exit1"

\* run() up to `await fetchHotList()`
BStart ==
    /\ bpc = "start"
    /\ bpc' = "fetching"
    /\ UNCHANGED <<nodes, items, trendsDir>>
    /\ UNCHANGED varsA

\* fetchHotList returns or throws; the raw data is written (the write may
\* throw); run() continues up to `await analyzeHotList(items)`.
BFetchReturn ==
    /\ bpc = "fetching"
    /\ \E fetchOk \in BOOLEAN, writeOk \in BOOLEAN :
         IF ~fetchOk
         THEN /\ bpc' = RunCatch
              /\ UNCHANGED <<items, trendsDir>>
         ELSE /\ items' = scrape(nodes)
              /\ IF writeOk
                 THEN /\ trendsDir' = trendsDir \cup {rawFilename(clock)}
                      /\ bpc' = "analyzing"
                 ELSE /\ bpc' = RunCatch
                      /\ UNCHANGED trendsDir
    /\ UNCHANGED nodes
    /\ UNCHANGED varsA

\* analyzeHotList returns or throws; the report is written (the write may
\* throw) under the dateStr of the raw data; run() returns.
BAnalyzeReturn ==
    /\ bpc = "analyzing"
    /\ \E analyzeOk \in BOOLEAN, writeOk \in BOOLEAN :
         IF analyzeOk /\ writeOk
         THEN /\ \E r \in trendsDir :
                   /\ r[1] = "tophub_hot"
                   /\ trendsDir' = trendsDir \cup {reportFilename(r[2])}
              /\ bpc' = "done"
         ELSE /\ bpc' = RunCatch
              /\ UNCHANGED trendsDir
    /\ UNCHANGED <<nodes, items>>
    /\ UNCHANGED varsA

InitB ==
    /\ inputFile = [f \in Files |-> NoFile]
    /\ pc = [f \in Files |-> "absent"]
    /\ inInput = [f \in Files |-> FALSE]
    /\ InitCommon
    /\ bpc = "start"
    /\ nodes \in SeqsUpTo(NodeKinds, MaxNodes)
    /\ items = <<>>
    /\ trendsDir = {}

NextB ==
    \/ BStart
    \/ BFetchReturn
    \/ BAnalyzeReturn
    \/ Tick

SpecB == InitB /\ [][NextB]_vars

\* ------------------------------------------------------------------ claims
SavedTasks(f) == { i \in TaskIdx(f) : task[f][i] = "saved" }
FailedTasks(f) == { i \in TaskIdx(f) : task[f][i] = "failed" }
SkippedTasks(f) == { i \in TaskIdx(f) : task[f][i] = "skipped" }
OutputsOf(f) == { o \in outputs : o.by[1] = f }
Processing(f) == pc[f] \in {"debounce", "running", "verify"}
BatchOver(f) == pc[f] \in {"verify", "idle"} /\ articles[f] # <<>>

\* C1: within one file's batch at most 2 per-article tasks are in flight
\* (fetching or generating/saving) at any moment, whatever the number of
\* articles and whichever tasks fail.
C1_AtMostTwoInFlight == \A f \in Files : Cardinality(InFlight(f)) <= 2

\* two tasks in flight while a third one waits in the queue
C1_Witness ==
    \E f \in Files :
        /\ Cardinality(InFlight(f)) = 2
        /\ queue[f] # <<>>

\* C2: at most one file's processInputFile is running at any time.
C2_OneBatchAtATime == Cardinality({ f \in Files : Processing(f) }) <= 1

\* C3: the archival rename happens only after every task of the batch has
\* settled, and the hook is started only after the archival; no task is in
\* flight or queued when either has happened.
C3_ArchiveAfterSettle ==
    \A f \in Files :
        /\ renameTries[f] > 0 =>
              /\ Len(task[f]) = Len(articles[f])
              /\ \A i \in TaskIdx(f) : task[f][i] \in {"skipped", "saved", "failed"}
              /\ queue[f] = <<>>
        /\ hookRuns[f] > 0 => archived[f] > 0

\* archived and hook started after one task saved, one failed, one was skipped
C3_Witness ==
    \E f \in Files :
        /\ pc[f] = "verify"
        /\ archived[f] = 1
        /\ SavedTasks(f) # {} /\ FailedTasks(f) # {} /\ SkippedTasks(f) # {}

\* C4 as stated: a detected file whose extraction yielded at least one item
\* is, once processing has ended, archived exactly once and gone from the
\* input directory.
C4_AlwaysArchived ==
    \A f \in Files :
        (pc[f] = "idle" /\ articles[f] # <<>>) => (archived[f] = 1 /\ ~inInput[f])

\* C4 amended: for such a file the archival rename is attempted exactly once,
\* whatever number of tasks failed; the file is archived (once, and gone from
\* the input directory) when that rename succeeds; a file is never archived
\* without extracted items.
C4_RenameAttemptedOnce ==
    \A f \in Files :
        /\ (pc[f] \in {"verify", "idle"} /\ articles[f] # <<>>) =>
              /\ renameTries[f] = 1
              /\ archived[f] <= 1
              /\ archived[f] = 1 => ~inInput[f]
        /\ archived[f] > 0 => articles[f] # <<>>

\* every task failed or was skipped, and the file is archived
C4_Witness ==
    \E f \in Files :
        /\ pc[f] = "idle"
        /\ Len(task[f]) >= 2
        /\ FailedTasks(f) # {} /\ SkippedTasks(f) # {} /\ SavedTasks(f) = {}
        /\ archived[f] = 1 /\ ~inInput[f]

\* C5: with N items of which M fail fetch and no other error, exactly M tasks
\* are skipped without a call of the generator and exactly N-M output files
\* exist, none overwritten.
C5_OneFilePerArticle ==
    \A f \in Files :
        (BatchOver(f) /\ FailedTasks(f) = {}) =>
            /\ SkippedTasks(f) = fetchFailed[f]
            /\ generated[f] \cap fetchFailed[f] = {}
            /\ Cardinality(OutputsOf(f)) = Len(articles[f]) - Cardinality(fetchFailed[f])

\* no [title](link) of the text has a non-blank title and an http link
NoValidLink(content) ==
    \A k \in 1..Len(content) :
        \/ \A j \in 1..Len(content[k].title) : content[k].title[j] = " "
        \/ Len(content[k].link) < 4
        \/ SubSeq(content[k].link, 1, 4) # <<"h", "t", "t", "p">>

\* C6: for a detected list file without a valid link no task is started, no
\* output is written, the file is not renamed and the hook is not run.
C6_ZeroLinks ==
    \A f \in Files :
        (pc[f] \notin {"absent", "dropped"} /\ NoValidLink(inputFile[f].content)) =>
            /\ task[f] = <<>>
            /\ OutputsOf(f) = {}
            /\ renameTries[f] = 0 /\ archived[f] = 0
            /\ hookRuns[f] = 0
            /\ pc[f] \in {"ignored", "debounce", "idle"}

\* a file with three matches, none valid, processed and left in place
C6_Witness ==
    \E f \in Files :
        /\ pc[f] = "idle"
        /\ Len(inputFile[f].content) = 3
        /\ NoValidLink(inputFile[f].content)
        /\ inInput[f]

\* C7: no task's promise ever rejects (so the wait for the batch never
\* rejects), and once the batch is created every task is eventually started
\* and settles, whichever tasks fail.
C7_TasksIsolated ==
    \A f \in Files :
        /\ [](\A i \in TaskIdx(f) : task[f][i] # "rejected")
        /\ (pc[f] = "running") ~>
              (\A i \in TaskIdx(f) : task[f][i] \in {"skipped", "saved", "failed"})

\* the first task failed in generation or saving, later ones still ran
C7_Witness ==
    \E f \in Files :
        /\ pc[f] = "running"
        /\ Len(task[f]) = 3
        /\ task[f][1] = "failed" /\ task[f][2] = "skipped" /\ task[f][3] = "saved"

\* C8 as stated: after a batch, the hook has been invoked (once) if and only
\* if at least one task saved an output.
C8_HookIffSaved ==
    \A f \in Files :
        (pc[f] = "idle" /\ articles[f] # <<>>) =>
            (hookRuns[f] = IF SavedTasks(f) # {} THEN 1 ELSE 0)

\* C8 amended: the hook is invoked (once, and awaited: processInputFile stays
\* in "verify" until the hook closes) if and only if at least one task saved
\* an output and the archival rename did not throw.
C8_HookIffSavedAndArchived ==
    \A f \in Files :
        /\ hookRuns[f] = IF BatchOver(f) /\ SavedTasks(f) # {} /\ archived[f] = 1
                         THEN 1 ELSE 0
        /\ pc[f] = "verify" => hookRuns[f] = 1

\* the hook ran once for a batch with one saved and one failed task
C8_Witness ==
    \E f \in Files :
        /\ pc[f] = "idle"
        /\ hookRuns[f] = 1
        /\ SavedTasks(f) # {} /\ FailedTasks(f) # {}

C10_AllOrNothing ==
    /\ bpc = "done" =>
          \E d \in 0..MaxClock : trendsDir = {rawFilename(d), reportFilename(d)}
    /\ bpc = "exit1" => trendsDir = {}

\* C10 amended: a completed run has persisted the raw list and its report; a
\* failed run exits non-zero without a report, but leaves the raw-data file
\* when the failure comes after the raw data was saved.
C10_NoReportOnFailure ==
    /\ bpc \in {"start", "fetching", "analyzing", "done", "exit1"}
    /\ bpc = "done" =>
          \E d \in 0..MaxClock : trendsDir = {rawFilename(d), reportFilename(d)}
    /\ bpc = "exit1" => \A x \in trendsDir : x[1] # "tophub_analysis"

\* a failed run that left the raw data of two scraped items
C10_Witness ==
    /\ bpc = "exit1"
    /\ Len(items) = 2
    /\ \E d \in 0..MaxClock : trendsDir = {rawFilename(d)}

====
